---- MODULE Spec2Model ----
(***************************************************************************)
(* Model of the change-capture layer of gitbutler:                         *)
(*   src-tauri/src/delta_watchers.rs  (watch registry, per-project worker, *)
(*   session tracker, delta recorder).                                     *)
(*                                                                         *)
(* Two project paths are considered: "p1" is a git repository, "p2" is a   *)
(* path at which Repository::open fails.  All file-system state below is   *)
(* that of "p1", the only project a worker can ever be spawned for.        *)
(*                                                                         *)
(* The head of the operations log of the project is kept by                *)
(*   crates/gitbutler-core/src/ops/state.rs  (OplogHandle, oplog.toml).    *)
(***************************************************************************)
EXTENDS Integers, Sequences, FiniteSets, TLC

\* ------------------------------------------------------------------ bounds
\* wall-clock seconds run from 1 to MaxTime
MaxTime == 2
\* at most MaxQueue events wait in a worker's channel
MaxQueue == 1
\* at most MaxDeltas deltas are journalled for the tracked file
MaxDeltas == 2
\* at most MaxWatch successful watch calls (each spawns one worker)
MaxWatch == 2
\* at most MaxSets successful set_oplog_head calls
MaxSets == 3

\* ------------------------------------------------------------- small sets
Projects == {"p1", "p2"}
\* Repository::open(path) succeeds
IsRepo(p) == p = "p1"

\* Option<T> over sequences (a text, a list of deltas)
NoneOpt == [some |-> FALSE, v |-> <<>>]
Some(x) == [some |-> TRUE, v |-> x]

\* a session record: None does not exist, Empty was created (File::create)
\* and never written
None == "None"
Empty == "Empty"

\* the tracked file on disk: absent, bytes that are not valid UTF-8 (on which
\* std::fs::read_to_string fails), or a text
NoFile == [kind |-> "none", text |-> <<>>]
BinaryFile == [kind |-> "binary", text |-> <<>>]
TextFile(t) == [kind |-> "text", text |-> t]

\* text contents of the tracked file
Texts == {<<"a">>, <<"a", "b">>, <<"b">>}
\* the file's content in the reference commit: absent there, or "a"
BaseChoices == {NoneOpt, Some(<<"a">>)}

\* what repo.head() names when it can be read
BranchName == "refs/heads/main"
CommitId == "c0ffee"

\* paths an event may carry, all below the watched project root:
\*   "f"  the tracked file (a regular file when it exists, not ignored)
\*   "g"  a file below .git (gb/session/...), which the ignore rules exclude
\*   "t"  the temporary file of an atomic save, gone once it was renamed
Paths == {"f", "g", "t"}

ErrEvent == [ok |-> FALSE, paths |-> <<>>]
PathEvent(ps) == [ok |-> TRUE, paths |-> ps]
NoEvent == [ok |-> FALSE, paths |-> <<"none">>]

\* events the OS watch reports without a content change of the tracked file:
\* a watch error, an event without paths, a rename carrying two paths
SpontaneousEvents == {ErrEvent, PathEvent(<<>>), PathEvent(<<"t", "f">>)}

VARIABLES
  watchers,   \* WatcherCollection: project path -> watcher id, 0 = no entry
  poisoned,   \* the Mutex of WatcherCollection is poisoned
  lost,       \* the backend no longer watches the path of p1's stored watcher
  workers,    \* workers[w]: the thread spawned by the w-th successful watch
  result,     \* the last watch/unwatch call and how it ended
  disk,       \* the tracked file: NoFile, BinaryFile or TextFile(t)
  base,       \* content of the tracked file in the reference commit
  hasCurrent, \* refs/gitbutler/current resolves
  headOk,     \* repo.head() can be read
  meta,       \* .git/gb/session/meta: session-start, branch, commit, session-last
  store,      \* delta storage of the tracked file: NoneOpt or Some(deltas)
  sink,       \* deltas of the last DeltasEvent the window received
  nEmit,      \* number of DeltasEvents the window received
  synced,     \* history: the recorder ran to the end on the tracked file
              \* (update returned) and the file was not written since
  now,        \* wall clock
  oplogFile,  \* oplog.toml: absent, or its contents
  sets,       \* history: the shas of the set_oplog_head calls that returned Ok
  oplogRet    \* the last OplogHandle call and what it returned

vars == <<watchers, poisoned, lost, workers, result, disk, base, hasCurrent, headOk,
          meta, store, sink, nEmit, synced, now, oplogFile, sets, oplogRet>>

oplogVars == <<oplogFile, sets, oplogRet>>
repoVars == <<base, hasCurrent, oplogVars>>
\* everything but the oplog
watchVars == <<watchers, poisoned, lost, workers, result, disk, base, hasCurrent,
               headOk, meta, store, sink, nEmit, synced, now>>
quietVars == <<repoVars, synced>>

\* ------------------------------------------------------- crdt (Delta Model)
\* the result of replaying deltas: a text, or a failure
Fail == [ok |-> FALSE, text |-> <<>>]
Good(t) == [ok |-> TRUE, text |-> t]

Drop(s, n) == SubSeq(s, n + 1, Len(s))

RECURSIVE CommonPrefix(_, _)
CommonPrefix(s, t) ==
  IF s = <<>> \/ t = <<>> THEN 0
  ELSE IF Head(s) # Head(t) THEN 0
  ELSE 1 + CommonPrefix(Tail(s), Tail(t))

Reverse(s) == [i \in 1..Len(s) |-> s[Len(s) + 1 - i]]

\* diff(old, new): retain the common prefix, delete and insert the middle,
\* retain the common suffix
DiffOps(old, new) ==
  LET p == CommonPrefix(old, new)
      s == CommonPrefix(Reverse(Drop(old, p)), Reverse(Drop(new, p)))
      del == Len(old) - p - s
      ins == SubSeq(new, p + 1, Len(new) - s)
  IN  (IF p > 0 THEN <<[kind |-> "retain", n |-> p, text |-> <<>>]>> ELSE <<>>)
      \o (IF del > 0 THEN <<[kind |-> "delete", n |-> del, text |-> <<>>]>> ELSE <<>>)
      \o (IF ins # <<>> THEN <<[kind |-> "insert", n |-> Len(ins), text |-> ins]>> ELSE <<>>)
      \o (IF s > 0 THEN <<[kind |-> "retain", n |-> s, text |-> <<>>]>> ELSE <<>>)

\* apply(delta, text): fails when retain+delete does not match the text's length
RECURSIVE ApplyOps(_, _, _)
ApplyOps(ops, text, out) ==
  IF ops = <<>> THEN (IF text = <<>> THEN Good(out) ELSE Fail)
  ELSE LET op == Head(ops) IN
    IF op.kind = "insert" THEN ApplyOps(Tail(ops), text, out \o op.text)
    ELSE IF op.n > Len(text) THEN Fail
    ELSE IF op.kind = "retain"
      THEN ApplyOps(Tail(ops), Drop(text, op.n), out \o SubSeq(text, 1, op.n))
      ELSE ApplyOps(Tail(ops), Drop(text, op.n), out)

Apply(delta, text) == ApplyOps(delta.ops, text, <<>>)

RECURSIVE ApplyAll(_, _)
ApplyAll(deltas, r) ==
  IF deltas = <<>> \/ ~r.ok THEN r
  ELSE ApplyAll(Tail(deltas), Apply(Head(deltas), r.text))

\* TextDocument::new(contents, deltas); doc is the materialized text
TextDocumentNew(contents, deltas) ==
  [doc |-> ApplyAll(deltas, Good(contents)), deltas |-> deltas]

\* TextDocument::from_deltas(deltas): the deltas on top of the empty text
TextDocumentFromDeltas(deltas) == TextDocumentNew(<<>>, deltas)

\* TextDocument::update(contents): FALSE and no change when the text is the
\* same, else exactly one delta more; its logical timestamp is its position
TextDocumentUpdate(td, contents) ==
  IF td.doc.text = contents THEN [changed |-> FALSE, td |-> td]
  ELSE [changed |-> TRUE,
        td |-> [doc |-> Good(contents),
                deltas |-> Append(td.deltas,
                                  [ops |-> DiffOps(td.doc.text, contents),
                                   ts |-> Len(td.deltas) + 1])]]

\* TextDocument::get_deltas()
TextDocumentGetDeltas(td) == td.deltas

\* ---------------------------------------------------------- Session Tracker
NoMeta == [start |-> 0, branch |-> None, commit |-> None, last |-> 0]

\* write_beginning_meta_files with the existence check of session-start left
\* out: the record is rewritten by every call
WriteBeginningMetaFilesRestart(m, hOk, t) ==
  LET m1 == [m EXCEPT !.start = t]
      m2 == IF m1.branch = None THEN [m1 EXCEPT !.branch = BranchName] ELSE m1
      m3 == IF m2.commit = None THEN [m2 EXCEPT !.commit = CommitId] ELSE m2
  IN  IF m1.branch = None /\ ~hOk
        THEN [ok |-> FALSE, meta |-> [m1 EXCEPT !.branch = Empty]]
      ELSE IF m2.commit = None /\ ~hOk
        THEN [ok |-> FALSE, meta |-> [m2 EXCEPT !.commit = Empty]]
      ELSE [ok |-> TRUE, meta |-> [m3 EXCEPT !.last = t]]

\* write_beginning_meta_files(repo) at time t with the records m; hOk says
\* whether repo.head() can be read.  Each record is created (File::create)
\* before its value is computed, and a failing repo.head().unwrap() panics
\* in between: ok = FALSE, the records as they are left on disk.
WriteBeginningMetaFiles(m, hOk, t) ==
  LET m1 == IF m.start = 0 THEN [m EXCEPT !.start = t] ELSE m
      m2 == IF m1.branch = None THEN [m1 EXCEPT !.branch = BranchName] ELSE m1
      m3 == IF m2.commit = None THEN [m2 EXCEPT !.commit = CommitId] ELSE m2
  IN  IF m1.branch = None /\ ~hOk
        THEN [ok |-> FALSE, meta |-> [m1 EXCEPT !.branch = Empty]]
      ELSE IF m2.commit = None /\ ~hOk
        THEN [ok |-> FALSE, meta |-> [m2 EXCEPT !.commit = Empty]]
      ELSE [ok |-> TRUE, meta |-> [m3 EXCEPT !.last = t]]

\* ----------------------------------------------------------- Delta Recorder
\* file_path.is_file()
IsFile(path) ==
  CASE path = "f" -> disk.kind # "none"
    [] path = "g" -> TRUE
    [] path = "t" -> FALSE

\* a failing ignore check read as "not ignored": unwrap_or(false)
IsPathIgnoredOrFalse(path, ignErr) == ~ignErr /\ path = "g"

\* repo.is_path_ignored(path).unwrap_or(true); ignErr: the check itself fails
IsPathIgnored(path, ignErr) == ignErr \/ path = "g"

\* get_meta_commit(repo): refs/gitbutler/current, else HEAD; panics when
\* neither can be read
GetMetaCommitOk == hasCurrent \/ headOk

\* the construction with the commit blob left out of every case
MakeTextDocumentNoBase(commit_blob, deltas) ==
  IF deltas.some THEN TextDocumentFromDeltas(deltas.v)
  ELSE TextDocumentFromDeltas(<<>>)

\* the four-case construction of the TextDocument (lines 143-148)
MakeTextDocument(commit_blob, deltas) ==
  CASE commit_blob.some /\ deltas.some -> TextDocumentNew(commit_blob.v, deltas.v)
    [] commit_blob.some /\ ~deltas.some -> TextDocumentNew(commit_blob.v, <<>>)
    [] ~commit_blob.some /\ deltas.some -> TextDocumentFromDeltas(deltas.v)
    [] OTHER -> TextDocumentFromDeltas(<<>>)

\* a save of the newest delta alone, in place of the list
SavedNewDelta(text_doc) ==
  LET ds == TextDocumentGetDeltas(text_doc) IN <<ds[Len(ds)]>>

\* the deltas register_file_change saves, and the deltas it returns
SavedDeltas(text_doc) == TextDocumentGetDeltas(text_doc)

\* a return of the newest delta alone
ReturnedNewDelta(text_doc) ==
  LET ds == TextDocumentGetDeltas(text_doc) IN <<ds[Len(ds)]>>

ReturnedDeltas(text_doc) == TextDocumentGetDeltas(text_doc)

\* register_file_change without the early return on an update that reports
\* no change (lines 154-156): the list is saved and returned all the same
RegisterFileChangeAlwaysSave(path, m, st, ignErr) ==
  LET wb == WriteBeginningMetaFiles(m, headOk, now)
      out(pn, rt, s2, rec) ==
        [panic |-> pn, ret |-> rt, meta |-> wb.meta, store |-> s2, recorded |-> rec]
      text_doc == MakeTextDocument(base, st)
      up == TextDocumentUpdate(text_doc, disk.text)
  IN  IF ~wb.ok THEN out(TRUE, NoneOpt, st, FALSE)
      ELSE IF ~IsFile(path) THEN out(FALSE, NoneOpt, st, FALSE)
      ELSE IF IsPathIgnored(path, ignErr) THEN out(FALSE, NoneOpt, st, FALSE)
      ELSE IF ~GetMetaCommitOk THEN out(TRUE, NoneOpt, st, FALSE)
      ELSE IF ~text_doc.doc.ok THEN out(TRUE, NoneOpt, st, FALSE)
      ELSE IF disk.kind = "binary" THEN out(TRUE, NoneOpt, st, FALSE)
      ELSE out(FALSE, Some(ReturnedDeltas(up.td)), Some(SavedDeltas(up.td)), TRUE)

\* register_file_change(repo, project, kind, file_path) with the session
\* records m and the stored deltas st.  panic: the call unwound; ret: the
\* Option<Vec<Delta>> returned; meta, store: what the call leaves on disk;
\* recorded: the call got as far as text_doc.update returning.
RegisterFileChange(path, m, st, ignErr) ==
  LET wb == WriteBeginningMetaFiles(m, headOk, now)
      out(pn, rt, s2, rec) ==
        [panic |-> pn, ret |-> rt, meta |-> wb.meta, store |-> s2, recorded |-> rec]
      text_doc == MakeTextDocument(base, st)
      up == TextDocumentUpdate(text_doc, disk.text)
  IN  IF ~wb.ok THEN out(TRUE, NoneOpt, st, FALSE)
      ELSE IF ~IsFile(path) THEN out(FALSE, NoneOpt, st, FALSE)
      ELSE IF IsPathIgnored(path, ignErr) THEN out(FALSE, NoneOpt, st, FALSE)
      ELSE IF ~GetMetaCommitOk THEN out(TRUE, NoneOpt, st, FALSE)
      ELSE IF ~text_doc.doc.ok THEN out(TRUE, NoneOpt, st, FALSE)
      ELSE IF disk.kind = "binary" THEN out(TRUE, NoneOpt, st, FALSE)
      ELSE IF ~up.changed THEN out(FALSE, NoneOpt, st, TRUE)
      ELSE out(FALSE, Some(ReturnedDeltas(up.td)), Some(SavedDeltas(up.td)), TRUE)

\* -------------------------------------------------------------- the worker
\* the body of the worker's loop for the paths of one event (lines 62-85):
\* register_file_change, then window.emit(...).unwrap() for Some(deltas);
\* emitOk: the window accepts the event.
\* S = [panic, meta, store, sink, nEmit, recorded]
RECURSIVE HandlePaths(_, _, _, _)
HandlePaths(paths, S, ignErr, emitOk) ==
  IF paths = <<>> \/ S.panic THEN S
  ELSE LET r == RegisterFileChange(Head(paths), S.meta, S.store, ignErr)
           S1 == [S EXCEPT !.meta = r.meta, !.store = r.store,
                           !.recorded = (S.recorded \/ r.recorded)]
       IN  IF r.panic THEN [S1 EXCEPT !.panic = TRUE]
           ELSE IF ~r.ret.some THEN HandlePaths(Tail(paths), S1, ignErr, emitOk)
           ELSE IF ~emitOk THEN [S1 EXCEPT !.panic = TRUE]
           ELSE HandlePaths(Tail(paths),
                            [S1 EXCEPT !.sink = r.ret, !.nEmit = S.nEmit + 1],
                            ignErr, emitOk)

NewWorker(p) ==
  [project |-> p, queue |-> <<>>, cur |-> NoEvent, state |-> "recv"]

Ids == 1..Len(workers)

\* the watcher of worker w is still owned by the map: its sender is alive
HandleAlive(w) == watchers[workers[w].project] = w

\* a watch that goes on reporting after its watcher left the map
WatchingAfterRemoval(w) == workers[w].project \in Projects /\ ~lost

\* the OS watch of worker w still reports events of the project path
Watching(w) == HandleAlive(w) /\ ~lost

\* room for one more event in w's channel
Room(w) == Len(workers[w].queue) < MaxQueue

\* the workers after the OS watch reported event e: the sender of the stored
\* watcher puts it into the channel of its worker, unless the receiver is gone.
\* A report beyond the bound of the channel is not modelled.
Deliver(ws, e) ==
  [w \in DOMAIN ws |->
     IF Watching(w) /\ ws[w].state \in {"recv", "busy"} /\ Len(ws[w].queue) < MaxQueue
       THEN [ws[w] EXCEPT !.queue = Append(@, e)]
       ELSE ws[w]]

CanDeliver == \A w \in Ids : Watching(w) => Room(w)

\* a receive that does not wait for the loop body to end: the next event is
\* taken while the current one is being handled
RecvWhileBusy(w) ==
  /\ workers[w].state \in {"recv", "busy"}
  /\ workers[w].queue # <<>>
  /\ workers' = [workers EXCEPT ![w].cur = Head(workers[w].queue),
                                ![w].queue = Tail(workers[w].queue),
                                ![w].state = "busy"]
  /\ UNCHANGED <<watchers, poisoned, lost, result, disk, quietVars, headOk, meta,
                 store, sink, nEmit, now>>

\* rx.recv() returns Ok(event): line 60
Recv(w) ==
  /\ workers[w].state = "recv"
  /\ workers[w].queue # <<>>
  /\ workers' = [workers EXCEPT ![w].cur = Head(workers[w].queue),
                                ![w].queue = Tail(workers[w].queue),
                                ![w].state = "busy"]
  /\ UNCHANGED <<watchers, poisoned, lost, result, disk, quietVars, headOk, meta,
                 store, sink, nEmit, now>>

\* a receive that goes on blocking on the empty channel after every sender is
\* gone
RecvBlocks(w) ==
  /\ workers[w].state = "recv"
  /\ workers[w].queue = <<>>
  /\ ~HandleAlive(w)
  /\ UNCHANGED vars

\* rx.recv() returns Err: every sender is gone and the channel is empty; the
\* while-let loop ends and the thread returns
RecvClosed(w) ==
  /\ workers[w].state = "recv"
  /\ workers[w].queue = <<>>
  /\ ~HandleAlive(w)
  /\ workers' = [workers EXCEPT ![w].state = "exited"]
  /\ UNCHANGED <<watchers, poisoned, lost, result, disk, quietVars, headOk, meta,
                 store, sink, nEmit, now>>

\* the loop body for the dequeued event (lines 61-88).  The worker's own writes
\* below .git/gb/session are inside the recursively watched project path, so
\* a live watch reports them back as an event on an ignored path.
Process(w) ==
  /\ workers[w].state = "busy"
  /\ \E ignErr \in BOOLEAN, emitOk \in BOOLEAN :
       LET e == workers[w].cur
           S0 == [panic |-> FALSE, meta |-> meta, store |-> store,
                  sink |-> sink, nEmit |-> nEmit, recorded |-> FALSE]
           wrote == e.ok /\ e.paths # <<>>
           idle == [workers EXCEPT ![w].cur = NoEvent, ![w].state = "recv"]
       IN  \E S \in {IF e.ok THEN HandlePaths(e.paths, S0, ignErr, emitOk) ELSE S0} :
             /\ meta' = S.meta
             /\ store' = S.store
             /\ sink' = S.sink
             /\ nEmit' = S.nEmit
             /\ synced' = (synced \/ (S.recorded /\ ~S.panic))
             /\ workers' =
                  IF S.panic
                    THEN [workers EXCEPT ![w].cur = NoEvent, ![w].queue = <<>>,
                                         ![w].state = "panicked"]
                  ELSE IF wrote THEN Deliver(idle, PathEvent(<<"g">>))
                  ELSE idle
  /\ UNCHANGED <<watchers, poisoned, lost, result, disk, repoVars, headOk, now>>

\* ------------------------------------------------------------ the registry
Called(op, p, out) == [op |-> op, project |-> p, out |-> out]

\* a watch that stores the watcher and spawns the worker before the watch of
\* the path is established
WatchInsertFirst(p) ==
  \E est \in BOOLEAN :
    IF ~IsRepo(p) \/ poisoned
      THEN /\ result' = Called("watch", p, "panic")
           /\ UNCHANGED <<watchers, poisoned, lost, workers, disk, quietVars,
                          headOk, meta, store, sink, nEmit, now>>
      ELSE /\ Len(workers) < MaxWatch
           /\ watchers' = [watchers EXCEPT ![p] = Len(workers) + 1]
           /\ workers' = Append(workers, NewWorker(p))
           /\ lost' = FALSE
           /\ result' = Called("watch", p, IF est THEN "Ok" ELSE "panic")
           /\ UNCHANGED <<poisoned, disk, quietVars, headOk, meta, store, sink,
                          nEmit, now>>

\* watch(window, watchers, project), lines 31-93.  est: the watcher can be
\* created and the recursive watch of the path established.  Every failure
\* is a panic of the calling thread (lines 40, 45, 51, and lock().unwrap()
\* on a poisoned mutex, line 56); all of them precede insert and spawn.
\* insert replaces, and thereby drops, a watcher already stored for the path.
Watch(p) ==
  \E est \in BOOLEAN :
    IF ~IsRepo(p) \/ ~est \/ poisoned
      THEN /\ result' = Called("watch", p, "panic")
           /\ UNCHANGED <<watchers, poisoned, lost, workers, disk, quietVars, headOk,
                          meta, store, sink, nEmit, now>>
      ELSE /\ Len(workers) < MaxWatch
           /\ watchers' = [watchers EXCEPT ![p] = Len(workers) + 1]
           /\ workers' = Append(workers, NewWorker(p))
           /\ lost' = FALSE
           /\ result' = Called("watch", p, "Ok")
           /\ UNCHANGED <<poisoned, disk, quietVars, headOk, meta, store, sink,
                          nEmit, now>>

\* unwatch(watchers, project), lines 15-22.  The entry is removed before
\* watcher.unwatch(path) runs; when that fails, expect() panics while the
\* lock is held, which poisons the mutex, and the removed watcher is dropped
\* by the unwinding.
Unwatch(p) ==
  IF poisoned
    THEN /\ result' = Called("unwatch", p, "panic")
         /\ UNCHANGED <<watchers, poisoned, lost, workers, disk, quietVars, headOk,
                        meta, store, sink, nEmit, now>>
  ELSE IF watchers[p] = 0
    THEN /\ result' = Called("unwatch", p, "Ok")
         /\ UNCHANGED <<watchers, poisoned, lost, workers, disk, quietVars, headOk,
                        meta, store, sink, nEmit, now>>
  ELSE /\ watchers' = [watchers EXCEPT ![p] = 0]
       /\ poisoned' = lost
       /\ lost' = FALSE
       /\ result' = Called("unwatch", p, IF lost THEN "panic" ELSE "Ok")
       /\ UNCHANGED <<workers, disk, quietVars, headOk, meta, store, sink,
                      nEmit, now>>

\* --------------------------------------------------------- the environment
NumDeltas == Len(store.v)

\* the tracked file is written; the watch reports a modify/create event
FsWrite(c) ==
  /\ NumDeltas < MaxDeltas
  /\ CanDeliver
  /\ disk' = c
  /\ workers' = Deliver(workers, PathEvent(<<"f">>))
  /\ synced' = FALSE
  /\ UNCHANGED <<watchers, poisoned, lost, result, repoVars, headOk, meta, store,
                 sink, nEmit, now>>

\* the tracked file is removed; the watch reports a remove event
FsRemove ==
  /\ disk # NoFile
  /\ CanDeliver
  /\ disk' = NoFile
  /\ workers' = Deliver(workers, PathEvent(<<"f">>))
  /\ synced' = FALSE
  /\ UNCHANGED <<watchers, poisoned, lost, result, repoVars, headOk, meta, store,
                 sink, nEmit, now>>

\* the watch reports an event that changes no content
OsEvent(e) ==
  /\ \E w \in Ids : Watching(w) /\ workers[w].state \in {"recv", "busy"}
  /\ CanDeliver
  /\ workers' = Deliver(workers, e)
  /\ UNCHANGED <<watchers, poisoned, lost, result, disk, quietVars, headOk, meta,
                 store, sink, nEmit, now>>

\* the backend stops watching the project path on its own (the directory
\* was removed and put back); the handle stays in the map
WatchLost(w) ==
  /\ Watching(w)
  /\ lost' = TRUE
  /\ UNCHANGED <<watchers, poisoned, workers, result, disk, quietVars, headOk, meta,
                 store, sink, nEmit, now>>

\* HEAD becomes readable (the first commit of an unborn branch) or unreadable
HeadChange ==
  /\ headOk' = ~headOk
  /\ UNCHANGED <<watchers, poisoned, lost, workers, result, disk, quietVars, meta,
                 store, sink, nEmit, now>>

Tick ==
  /\ now < MaxTime
  /\ now' = now + 1
  /\ UNCHANGED <<watchers, poisoned, lost, workers, result, disk, quietVars, headOk,
                 meta, store, sink, nEmit>>

\* ------------------------------------------------- OplogHandle (state.rs)
Shas == {"s1", "s2", "s3"}

\* Option<String>
NoSha == [some |-> FALSE, v |-> ""]
SomeSha(x) == [some |-> TRUE, v |-> x]

\* Oplog::default()
OplogDefault == [head_sha |-> NoSha]

\* oplog.toml does not exist
NoOplogFile == [exists |-> FALSE, contents |-> <<>>]

\* toml::to_string(&oplog): a document of key/value lines; a None field is
\* left out
TomlToString(oplog) ==
  IF oplog.head_sha.some THEN << <<"head_sha", oplog.head_sha.v>> >> ELSE <<>>

\* toml::from_str(&contents): a key other than head_sha is ignored, a missing
\* head_sha is None, a line that is no key/value pair is a parse error
TomlFromStr(contents) ==
  LET hs == {i \in DOMAIN contents : Len(contents[i]) = 2 /\ contents[i][1] = "head_sha"}
  IN  IF \E i \in DOMAIN contents : Len(contents[i]) # 2
        THEN [ok |-> FALSE, oplog |-> OplogDefault]
      ELSE IF hs = {} THEN [ok |-> TRUE, oplog |-> OplogDefault]
      ELSE [ok |-> TRUE,
            oplog |-> [head_sha |-> SomeSha(contents[CHOOSE i \in hs : TRUE][2])]]

\* a read that takes the file for missing whatever is on disk
ReadFileMissing(f, ioOk) == [ok |-> TRUE, oplog |-> OplogDefault]

\* read_file(): the default when the file does not exist (it is not created);
\* ioOk: File::open and read_to_string succeed
ReadFile(f, ioOk) ==
  IF ~f.exists THEN [ok |-> TRUE, oplog |-> OplogDefault]
  ELSE IF ~ioOk THEN [ok |-> FALSE, oplog |-> OplogDefault]
  ELSE TomlFromStr(f.contents)

OplogCalled(op, ok, head) == [op |-> op, ok |-> ok, head |-> head]

\* set_oplog_head(sha): read, replace head_sha, write.  wrOk: crate::fs::write
\* succeeds; a write that fails leaves the file as it was.
SetOplogHead(sha) ==
  /\ Len(sets) < MaxSets
  /\ \E rdOk \in BOOLEAN, wrOk \in BOOLEAN :
       LET r == ReadFile(oplogFile, rdOk)
           oplog == [r.oplog EXCEPT !.head_sha = SomeSha(sha)]
       IN  IF r.ok /\ wrOk
             THEN /\ oplogFile' = [exists |-> TRUE, contents |-> TomlToString(oplog)]
                  /\ sets' = Append(sets, sha)
                  /\ oplogRet' = OplogCalled("set", TRUE, NoSha)
             ELSE /\ oplogRet' = OplogCalled("set", FALSE, NoSha)
                  /\ UNCHANGED <<oplogFile, sets>>
  /\ UNCHANGED watchVars

\* get_oplog_head(): Ok(oplog.head_sha) of what read_file returns
GetOplogHead ==
  /\ \E rdOk \in BOOLEAN :
       LET r == ReadFile(oplogFile, rdOk)
       IN  oplogRet' = OplogCalled("get", r.ok, IF r.ok THEN r.oplog.head_sha ELSE NoSha)
  /\ UNCHANGED <<oplogFile, sets>>
  /\ UNCHANGED watchVars

\* ------------------------------------------------------ the specifications
\* a fresh project: no session records, no deltas, a clean working tree
InitProject ==
  /\ base \in BaseChoices
  /\ disk = IF base.some THEN TextFile(base.v) ELSE NoFile
  /\ hasCurrent \in BOOLEAN
  /\ headOk \in BOOLEAN
  /\ meta = NoMeta
  /\ store = NoneOpt
  /\ sink = NoneOpt
  /\ nEmit = 0
  /\ synced = FALSE
  /\ now = 1
  /\ oplogFile = NoOplogFile
  /\ sets = <<>>
  /\ oplogRet = OplogCalled("none", TRUE, NoSha)

\* the process has started: WatcherCollection::default(), no call made yet;
\* the tracked file is committed and refs/gitbutler/current does not exist
Init ==
  /\ watchers = [p \in Projects |-> 0]
  /\ poisoned = FALSE
  /\ lost = FALSE
  /\ workers = <<>>
  /\ result = Called("none", "none", "none")
  /\ InitProject
  /\ base.some
  /\ ~hasCurrent

\* the state right after watch("p1") returned Ok(())
InitWatched ==
  /\ watchers = [p \in Projects |-> IF p = "p1" THEN 1 ELSE 0]
  /\ poisoned = FALSE
  /\ lost = FALSE
  /\ workers = <<NewWorker("p1")>>
  /\ result = Called("watch", "p1", "Ok")
  /\ InitProject

\* the registry and its workers, under events that change no file content
Next ==
  \/ \E p \in Projects : Watch(p)
  \/ \E p \in Projects : Unwatch(p)
  \/ \E w \in Ids : Recv(w)
  \/ \E w \in Ids : RecvClosed(w)
  \/ \E w \in Ids : Process(w)
  \/ OsEvent(PathEvent(<<"t", "f">>))
  \/ \E w \in Ids : WatchLost(w)

Spec == Init /\ [][Next]_vars

\* a step of the thread of worker w: a return of rx.recv() or the loop body
WorkerStep(w) ==
  /\ w \in Ids
  /\ (Recv(w) \/ RecvClosed(w) \/ Process(w))

\* the life of one registration from watch("p1") on: events arrive, the
\* backend may lose the watch, unwatch is called
NextWorker ==
  \/ Unwatch("p1")
  \/ \E w \in Ids : Recv(w)
  \/ \E w \in Ids : RecvClosed(w)
  \/ \E w \in Ids : Process(w)
  \/ \E e \in SpontaneousEvents : OsEvent(e)
  \/ \E w \in Ids : WatchLost(w)

\* the same with the worker threads scheduled: a thread that can take a step
\* (return from rx.recv(), run the loop body) eventually takes it
SpecFair ==
  /\ InitWatched
  /\ [][NextWorker]_vars
  /\ \A w \in 1..MaxWatch : WF_vars(WorkerStep(w))

\* the worker of one registration, under every change of the project's files,
\* of the repository head and of the clock
NextRecorder ==
  \/ \E w \in Ids : Recv(w)
  \/ \E w \in Ids : Process(w)
  \/ \E t \in Texts : FsWrite(TextFile(t))
  \/ FsWrite(BinaryFile)
  \/ FsRemove
  \/ \E e \in SpontaneousEvents : OsEvent(e)
  \/ HeadChange
  \/ Tick

SpecRecorder == InitWatched /\ [][NextRecorder]_vars

\* one oplog state file under set_oplog_head and get_oplog_head calls
InitOplog == Init /\ headOk

NextOplog ==
  \/ \E sha \in Shas : SetOplogHead(sha)
  \/ GetOplogHead

SpecOplog == InitOplog /\ [][NextOplog]_vars

\* ================================================================ claims
\* the text the stored deltas replay to, from the base text (the empty text
\* when the file is absent from the reference commit)
Replay == ApplyAll(store.v, Good(IF base.some THEN base.v ELSE <<>>))

IsSuffix(s, t) == \E k \in 0..Len(t) : s = SubSeq(t, k + 1, Len(t))

\* worker w finishes the loop body of an event that carries a path
Completes(w) ==
  /\ workers[w].state = "busy"
  /\ workers'[w].state = "recv"
  /\ workers[w].cur.ok
  /\ workers[w].cur.paths # <<>>

\* C1: session-start, branch and commit are written once, by the first event
\* handled on a fresh project, and no later step changes them; every handled
\* event overwrites session-last with the current time.
C1_SessionSingleWrite ==
  [][ /\ meta.start # 0 => meta'.start = meta.start
      /\ meta.branch # None => meta'.branch = meta.branch
      /\ meta.commit # None => meta'.commit = meta.commit
      /\ \A w \in Ids : Completes(w) =>
           /\ meta'.last = now
           /\ meta'.start # 0 /\ meta'.branch # None /\ meta'.commit # None
           /\ meta = NoMeta =>
                /\ meta'.start = now
                /\ meta'.branch = BranchName
                /\ meta'.commit = CommitId ]_vars

\* two events were handled at different times: the start is the first time,
\* the last activity the second
C1_Witness ==
  /\ meta.start = 1 /\ meta.last = 2
  /\ meta.branch = BranchName /\ meta.commit = CommitId

\* C2: a failing read of the head leaves no partial session identity: the
\* branch and commit records do not exist or hold the branch name and commit id.
C2_NoPartialIdentity ==
  /\ meta.branch \in {None, BranchName}
  /\ meta.commit \in {None, CommitId}

\* C3: a per-event error does not end the worker.
C3_WorkerSurvives == \A w \in Ids : workers[w].state # "panicked"

\* C4: a watch call that fails in its setup returns Err to its caller.
C4_SetupFailureIsErr ==
  (result.op = "watch" /\ result.out # "Ok") => result.out = "Err"

\* C5: a watch call that fails leaves the watcher map as it was and spawns
\* no worker.
C5_NoPartialRegistration ==
  [][ \A p \in Projects : (Watch(p) /\ result'.out # "Ok") =>
        (watchers' = watchers /\ workers' = workers) ]_vars

\* a watch call failed while another registration was in the map
C5_Witness ==
  /\ result = Called("watch", "p2", "panic")
  /\ watchers["p1"] # 0

\* unwatch of w's project has returned: the entry is gone and the call did
\* not panic (a panic of unwatch leaves the mutex poisoned)
Unwatched(w) == watchers[workers[w].project] = 0 /\ ~poisoned

\* C6 as claimed: after unwatch returned, the project has no entry and its
\* worker dequeues no further event.
C6_NoDequeueAfterUnwatch ==
  [][ /\ \A p \in Projects : (Unwatch(p) /\ result'.out = "Ok") => watchers'[p] = 0
      /\ \A w \in Ids : Unwatched(w) =>
           ~(workers[w].state = "recv" /\ workers'[w].state = "busy") ]_vars

\* C6 as amended: after unwatch returned, the project has no entry and no
\* event is put into the channel of its worker any more; the channel only
\* drains.
C6_NoEnqueueAfterUnwatch ==
  [][ /\ \A p \in Projects : (Unwatch(p) /\ result'.out = "Ok") => watchers'[p] = 0
      /\ \A w \in Ids : watchers[workers[w].project] # w =>
           IsSuffix(workers'[w].queue, workers[w].queue) ]_vars

\* unwatch returned while an event was waiting in the worker's channel
C6_Witness ==
  \E w \in Ids :
    /\ Unwatched(w)
    /\ result = Called("unwatch", workers[w].project, "Ok")
    /\ workers[w].state = "recv"
    /\ workers[w].queue # <<>>

\* C7: unwatch of a project without a registration does not fail and leaves
\* the map unchanged.
C7_UnwatchNoRegistration ==
  [][ \A p \in Projects : (Unwatch(p) /\ watchers[p] = 0) =>
        (result'.out = "Ok" /\ watchers' = watchers) ]_vars

\* C8: watch of a project that has a registration is rejected and leaves the
\* registration, its handle and its worker, in place.
C8_DoubleWatchRejected ==
  [][ \A p \in Projects : (Watch(p) /\ watchers[p] # 0) =>
        (result'.out # "Ok" /\ watchers' = watchers /\ workers' = workers) ]_vars

\* C9 as claimed: the list forwarded to the window holds the one new delta;
\* the list written to storage is the prior list with that delta appended.
C9_ForwardsNewDeltaOnly ==
  [][ nEmit' > nEmit =>
        (Len(sink'.v) = 1 /\ store'.v = store.v \o sink'.v) ]_vars

\* C9 as amended: the list forwarded to the window is the list written to
\* storage, the prior deltas followed by one new delta.
C9_ForwardsStoredList ==
  [][ nEmit' > nEmit =>
        /\ sink' = store'
        /\ Len(store'.v) = Len(store.v) + 1
        /\ SubSeq(store'.v, 1, Len(store.v)) = store.v ]_vars

\* an event on a file with one prior delta was forwarded
C9_Witness == nEmit = 2 /\ sink.some /\ Len(sink.v) = 2

\* C10: when the recorder has run to the end on the tracked file after its
\* last write, the stored deltas replay from the base text to the content on
\* disk.
C10_RoundTrip ==
  synced => (disk.kind = "text" /\ Replay = Good(disk.text))

\* two deltas are stored and replay to the content on disk
C10_Witness == synced /\ store.some /\ Len(store.v) = 2 /\ base.some

\* worker w runs the loop body of its dequeued event to the end or to a panic
Handles(w) == workers[w].state = "busy" /\ workers'[w].state # "busy"

\* C11: an event that finds the tracked file with the text its base and stored
\* deltas replay to (a touch, a re-save of the same content) produces no
\* delta: delta storage is left as it was and the window receives nothing.
C11_NoDeltaOnSameContent ==
  [][ \A w \in Ids :
        (Handles(w) /\ disk.kind = "text" /\ Replay = Good(disk.text)) =>
          (store' = store /\ sink' = sink /\ nEmit' = nEmit) ]_vars

\* the recorder ran to the end on the tracked file, whose content is the base
\* text, and nothing is stored or sent
C11_Witness ==
  /\ synced /\ disk.kind = "text" /\ base.some /\ disk.text = base.v
  /\ store = NoneOpt /\ nEmit = 0

\* the path is not an existing regular file, is excluded by the ignore rules,
\* or the ignore check fails
Skipped(path, ignErr) == ~IsFile(path) \/ path = "g" \/ ignErr

\* C12: for a path that is not an existing regular file, that the ignore
\* rules exclude, or whose ignore check fails, the recorder returns no delta
\* and leaves delta storage as it was; an event of such paths changes nothing
\* but the session records, by the session update, and sends nothing.
C12_SkippedPathNoDelta ==
  [][ /\ \A path \in Paths, ignErr \in BOOLEAN : Skipped(path, ignErr) =>
           LET r == RegisterFileChange(path, meta, store, ignErr)
           IN  /\ r.ret = NoneOpt
               /\ r.store = store
               /\ ~r.recorded
               /\ r.meta = WriteBeginningMetaFiles(meta, headOk, now).meta
      /\ \A w \in Ids :
           ( /\ Handles(w)
             /\ workers[w].cur.ok
             /\ workers[w].cur.paths # <<>>
             /\ \A i \in DOMAIN workers[w].cur.paths :
                  Skipped(workers[w].cur.paths[i], FALSE) ) =>
             /\ store' = store /\ sink' = sink /\ nEmit' = nEmit
             /\ meta' = WriteBeginningMetaFiles(meta, headOk, now).meta ]_vars

\* the tracked file was removed and the worker has handled the event of the
\* removal: the session records are written, nothing is stored or sent
C12_Witness ==
  /\ base.some /\ disk = NoFile
  /\ workers[1].state = "recv"
  /\ \A i \in DOMAIN workers[1].queue : workers[1].queue[i] = PathEvent(<<"g">>)
  /\ meta.last # 0
  /\ store = NoneOpt /\ nEmit = 0

\* C13: every event the worker receives, also one without a path and one the
\* watch reports as an error, updates the session records: when the worker has
\* handled it, session-last is the current time.
C13_EveryEventUpdatesSession ==
  [][ \A w \in Ids :
        (workers[w].state = "busy" /\ workers'[w].state = "recv") =>
          meta'.last = now ]_vars

\* C14: a failing delivery to the window leaves the delta list of the event
\* in storage and does not end the worker, which goes on to receive the
\* following events.
C14_EmitFailureSurvived ==
  [][ \A w \in Ids :
        (Handles(w) /\ store' # store) => workers'[w].state = "recv" ]_vars

LastSet == IF sets = <<>> THEN NoSha ELSE SomeSha(sets[Len(sets)])

C17_OneWorkerPerProject ==
  \A w1 \in Ids, w2 \in Ids :
    ( /\ workers[w1].project = workers[w2].project
      /\ workers[w1].state = "busy"
      /\ workers[w2].state = "busy" ) => w1 = w2

\* C18: the stored delta list of the tracked file only grows at its end:
\* it changes only when a worker handles an event, and then it is the list
\* stored before with exactly one delta appended.
C18_AppendOnly ==
  [][ store' # store =>
        /\ \E w \in Ids : Handles(w)
        /\ store'.some
        /\ Len(store'.v) = Len(store.v) + 1
        /\ \A i \in 1..Len(store.v) : store'.v[i] = store.v[i] ]_vars

\* two events have each appended one delta
C18_Witness ==
  /\ store.some /\ Len(store.v) = 2
  /\ store.v[1].ts = 1 /\ store.v[2].ts = 2
  /\ store.v[1] # store.v[2]

\* C19: handling an event puts no new event into the worker's own channel.
C19_NoSelfEvent ==
  [][ \A w \in Ids :
        (workers[w].state = "busy" /\ workers'[w].state = "recv") =>
          workers'[w].queue = workers[w].queue ]_vars

\* C20: a worker whose watcher has left the map (removed by unwatch, or
\* replaced) eventually ends: it handles what is left in its channel and its
\* receive loop returns, or it panics on the way.
C20_WorkerTerminates ==
  \A w \in 1..MaxWatch :
    (w \in Ids /\ ~HandleAlive(w)) ~>
      (w \in Ids /\ workers[w].state \in {"exited", "panicked"})

\* unwatch has returned and the worker's loop has ended
C20_Witness ==
  \E w \in Ids :
    /\ watchers[workers[w].project] = 0
    /\ result = Called("unwatch", workers[w].project, "Ok")
    /\ workers[w].state = "exited"

====
